---- MODULE Spec2Model ----
(***************************************************************************)
(* Model of analyzeUPITransactions (src/src/10-upi-transaction-log.js).    *)
(*                                                                         *)
(* The function is pure.  The state machine is a caller that holds one     *)
(* argument value, calls the function, and then either calls it again on   *)
(* the same value or first drops / inserts one invalid element.            *)
(*                                                                         *)
(* Amounts are integers (a JavaScript number below 2^53, so that sums and  *)
(* the division of line 80 are exact enough for Math.round), or the        *)
(* numeric string "500".  Labels are strings.                              *)
(***************************************************************************)
EXTENDS Integers, Sequences, FiniteSets

VARIABLES transactions, given, result, previous, calls, edit, pc

vars == <<transactions, given, result, previous, calls, edit, pc>>

\* Longest argument array the caller starts with.
MaxLen == 3

(***************************************************************************)
(* JavaScript values                                                       *)
(***************************************************************************)

\* A number, a string (kept as the pieces that were concatenated), a
\* function object, undefined.
Num(n) == [t |-> "number", n |-> n, s |-> <<>>]
Str(pieces) == [t |-> "string", n |-> 0, s |-> pieces]
Fn(name) == [t |-> "function", n |-> 0, s |-> <<name>>]
Undefined == [t |-> "undefined", n |-> 0, s |-> <<>>]

DigitChar == <<"0", "1", "2", "3", "4", "5", "6", "7", "8", "9">>

\* Number::toString of a non-negative integer, digit by digit.
RECURSIVE Digits(_)
Digits(n) ==
  IF n < 10 THEN <<DigitChar[n + 1]>>
  ELSE Digits(n \div 10) \o <<DigitChar[(n % 10) + 1]>>

\* Function.prototype.toString of a built-in.
FunctionSource(name) == <<"function ", name, "() { [native code] }">>

\* ToString of a value that can be an operand of + here.
ToStringPieces(v) ==
  CASE v.t = "number" -> Digits(v.n)
    [] v.t = "string" -> v.s
    [] v.t = "function" -> FunctionSource(v.s[1])
    [] OTHER -> <<"undefined">>

\* a + b: numeric addition of two numbers, otherwise (a string or an object
\* operand) string concatenation.
JsAdd(a, b) ==
  IF a.t = "number" /\ b.t = "number" THEN Num(a.n + b.n)
  ELSE Str(ToStringPieces(a) \o ToStringPieces(b))

\* ToBoolean.
Truthy(v) ==
  CASE v.t = "number" -> v.n # 0
    [] v.t = "string" -> v.s # <<>>
    [] v.t = "function" -> TRUE
    [] OTHER -> FALSE

\* a || b
JsOr(a, b) == IF Truthy(a) THEN a ELSE b

DigitValue(c) == CHOOSE d \in 0..9 : DigitChar[d + 1] = c

\* Whether ToNumber of a string gives a number: a string of decimal digits
\* (or the empty string) does, anything else met here gives NaN.
IsNumericString(s) == \A i \in 1..Len(s) : \E d \in 0..9 : DigitChar[d + 1] = s[i]

RECURSIVE ParseDigits(_, _)
ParseDigits(s, acc) ==
  IF s = <<>> THEN acc ELSE ParseDigits(Tail(s), (10 * acc) + DigitValue(Head(s)))

\* ToNumber: nan tells NaN, n is the number otherwise.
ToNumber(v) ==
  CASE v.t = "number" -> [nan |-> FALSE, n |-> v.n]
    [] v.t = "string" /\ IsNumericString(v.s) -> [nan |-> FALSE, n |-> ParseDigits(v.s, 0)]
    [] OTHER -> [nan |-> TRUE, n |-> 0]

\* a > b: both operands through ToNumber, false when either is NaN.
JsGreater(a, b) ==
  LET x == ToNumber(a)
      y == ToNumber(b)
  IN  ~x.nan /\ ~y.nan /\ x.n > y.n

\* a >= b
JsGreaterEq(a, b) ==
  LET x == ToNumber(a)
      y == ToNumber(b)
  IN  ~x.nan /\ ~y.nan /\ x.n >= y.n

\* a - b on numbers.
JsSub(a, b) == Num(a.n - b.n)

\* typeof v
TypeOf(v) == v.t

\* Properties every object literal {} inherits from Object.prototype; the
\* labels of the model meet this one.
ObjectPrototypeKeys == {"toString"}

\* obj[key] on an object created by {}: the own property, else the
\* inherited one, else undefined.
Get(obj, key) ==
  IF key \in DOMAIN obj THEN obj[key]
  ELSE IF key \in ObjectPrototypeKeys THEN Fn(key)
  ELSE Undefined

\* obj[key] = v (creates or overwrites the own property).
Put(obj, key, v) ==
  [k \in (DOMAIN obj) \cup {key} |-> IF k = key THEN v ELSE obj[k]]

\* s.reduce((sum, txn) => sum + txn.amount, sum)
RECURSIVE SumAmounts(_, _)
SumAmounts(s, sum) ==
  IF s = <<>> THEN sum ELSE SumAmounts(Tail(s), JsAdd(sum, Head(s).amount))

(***************************************************************************)
(* Array elements                                                          *)
(***************************************************************************)

\* An element of the argument array: null, a truthy primitive (a value such
\* as 42 whose property reads give undefined), or a record object.  id tells
\* record objects apart (object identity).
NullElem == [kind |-> "null", id |-> 0, type |-> "", amount |-> Undefined,
             to |-> "", category |-> ""]
PrimitiveElem == [kind |-> "primitive", id |-> 0, type |-> "", amount |-> Undefined,
                  to |-> "", category |-> ""]
Txn(ty, am, t, c) == [kind |-> "object", id |-> 0, type |-> ty, amount |-> am,
                      to |-> t, category |-> c]

\* txn.type and txn.amount: undefined on a primitive.
TypeField(txn) == IF txn.kind = "object" THEN txn.type ELSE "undefined"
AmountField(txn) == IF txn.kind = "object" THEN txn.amount ELSE Undefined

\* The callback without its leading "txn &&".
ElemTruthyUnchecked(txn) == TRUE

\* ToBoolean of an element: null is falsy, an object or a truthy primitive
\* is truthy.
ElemTruthy(txn) == txn.kind # "null"

\* A property read on null throws a TypeError.
PropertyReadThrows(txn) == txn.kind = "null"

\* The callback without its typeof test: "500" > 0 holds by coercion.
FilterCallbackNoTypeof(txn) ==
  IF ~(txn.kind # "null") THEN "false"
  ELSE IF txn.kind = "null" THEN "throw"
  ELSE IF /\ (TypeField(txn) = "credit" \/ TypeField(txn) = "debit")
          /\ JsGreater(AmountField(txn), Num(0))
       THEN "true"
       ELSE "false"

\* The filter callback of lines 56-61, with && evaluated left to right:
\* "true", "false", or "throw" when a property of null is read.
FilterCallback(txn) ==
  IF ~ElemTruthy(txn) THEN "false"
  ELSE IF PropertyReadThrows(txn) THEN "throw"
  ELSE IF /\ (TypeField(txn) = "credit" \/ TypeField(txn) = "debit")
          /\ TypeOf(AmountField(txn)) = "number"
          /\ JsGreater(AmountField(txn), Num(0))
       THEN "true"
       ELSE "false"

IsValidTxn(txn) == FilterCallback(txn) = "true"

CallbackThrows(txn) == FilterCallback(txn) = "throw"

\* A filter that tests the type and forgets the amount.
ValidTxnsTypeOnly(elems) ==
  SelectSeq(elems, LAMBDA txn : TypeField(txn) = "credit" \/ TypeField(txn) = "debit")

\* transactions.filter(...) of line 56.
ValidTxns(elems) == SelectSeq(elems, IsValidTxn)

\* Lines 66-68 and 70-72.
TotalOfType(validTxns, ty) ==
  SumAmounts(SelectSeq(validTxns, LAMBDA txn : txn.type = ty), Num(0))

TotalCredit(validTxns) == TotalOfType(validTxns, "credit")

\* A debit total that forgets its filter.
TotalDebitUnfiltered(validTxns) == SumAmounts(validTxns, Num(0))

TotalDebit(validTxns) == TotalOfType(validTxns, "debit")

\* Line 76.
TransactionCount(validTxns) == Len(validTxns)

\* Line 78.
TotalAmount(validTxns) == SumAmounts(validTxns, Num(0))

\* Math.floor in place of Math.round.
MathFloor(p, q) == p \div q

\* Math.round(p / q) for integers p >= 0, q > 0: floor(p/q + 1/2).
MathRound(p, q) == ((2 * p) + q) \div (2 * q)

\* >= in place of >: the last maximum wins.
RECURSIVE HighestFromLast(_, _)
HighestFromLast(s, max) ==
  IF s = <<>> THEN max
  ELSE HighestFromLast(Tail(s),
                       IF JsGreaterEq(Head(s).amount, max.amount) THEN Head(s) ELSE max)

HighestTransactionLast(validTxns) == HighestFromLast(Tail(validTxns), Head(validTxns))

\* The reducer of lines 83-85: a strictly greater amount replaces the
\* running maximum.
RECURSIVE HighestFrom(_, _)
HighestFrom(s, max) ==
  IF s = <<>> THEN max
  ELSE HighestFrom(Tail(s), IF JsGreater(Head(s).amount, max.amount) THEN Head(s) ELSE max)

\* Lines 83-85: reduce without an initial value starts from the first
\* element.
HighestTransaction(validTxns) == HighestFrom(Tail(validTxns), Head(validTxns))

\* The reducer of lines 88-91.
RECURSIVE BreakdownFrom(_, _)
BreakdownFrom(s, acc) ==
  IF s = <<>> THEN acc
  ELSE LET txn == Head(s)
       IN  BreakdownFrom(Tail(s),
             Put(acc, txn.category, JsAdd(JsOr(Get(acc, txn.category), Num(0)), txn.amount)))

\* Lines 88-91: the accumulator starts as {}.
CategoryBreakdown(validTxns) == BreakdownFrom(validTxns, <<>>)

\* The forEach of lines 97-99.
RECURSIVE CountFrom(_, _)
CountFrom(s, contactCount) ==
  IF s = <<>> THEN contactCount
  ELSE LET txn == Head(s)
       IN  CountFrom(Tail(s),
             Put(contactCount, txn.to, JsAdd(JsOr(Get(contactCount, txn.to), Num(0)), Num(1))))

\* Lines 94, 97-99.
ContactCount(validTxns) == CountFrom(validTxns, <<>>)

\* The loop of lines 102-107 over its two variables.
RECURSIVE ScanFrom(_, _, _)
ScanFrom(s, contactCount, st) ==
  IF s = <<>> THEN st
  ELSE LET txn == Head(s)
       IN  ScanFrom(Tail(s), contactCount,
             IF JsGreater(Get(contactCount, txn.to), st.maxCount)
             THEN [maxCount |-> Get(contactCount, txn.to), frequentContact |-> txn.to]
             ELSE st)

\* Lines 95, 101-107.
FrequentContact(validTxns) ==
  ScanFrom(validTxns, ContactCount(validTxns),
           [maxCount |-> Num(0), frequentContact |-> validTxns[1].to]).frequentContact

\* >= 100 in place of > 100.
AllAbove100Inclusive(validTxns) ==
  \A i \in 1..Len(validTxns) : JsGreaterEq(validTxns[i].amount, Num(100))

\* Line 110.
AllAbove100(validTxns) ==
  \A i \in 1..Len(validTxns) : JsGreater(validTxns[i].amount, Num(100))

\* Line 111.
HasLargeTransaction(validTxns) ==
  \E i \in 1..Len(validTxns) : JsGreaterEq(validTxns[i].amount, Num(5000))

\* The three outcomes of a call.
Null == [kind |-> "null"]
TypeError == [kind |-> "TypeError"]

\* Lines 113-124.
Summary(validTxns) ==
  LET totalCredit == TotalCredit(validTxns)
      totalDebit == TotalDebit(validTxns)
      transactionCount == TransactionCount(validTxns)
  IN  [kind |-> "summary",
       totalCredit |-> totalCredit,
       totalDebit |-> totalDebit,
       netBalance |-> JsSub(totalCredit, totalDebit),
       transactionCount |-> transactionCount,
       avgTransaction |-> MathRound(TotalAmount(validTxns).n, transactionCount),
       highestTransaction |-> HighestTransaction(validTxns),
       categoryBreakdown |-> CategoryBreakdown(validTxns),
       frequentContact |-> FrequentContact(validTxns),
       allAbove100 |-> AllAbove100(validTxns),
       hasLargeTransaction |-> HasLargeTransaction(validTxns)]

\* Lines 49-125.  The argument is [isArray, elems]: an array, or a value
\* that is no array (elems are then its indexed properties, if any).
analyzeUPITransactions(arg) ==
  IF ~arg.isArray \/ Len(arg.elems) = 0 THEN Null
  ELSE IF \E i \in 1..Len(arg.elems) : CallbackThrows(arg.elems[i]) THEN TypeError
  ELSE LET validTxns == ValidTxns(arg.elems)
       IN  IF Len(validTxns) = 0 THEN Null ELSE Summary(validTxns)

\* A filter done in place (splice) instead of into a new array.
InputAfterCallSpliced(arg) == [arg EXCEPT !.elems = SelectSeq(@, IsValidTxn)]

\* The argument after the call: filter, reduce, forEach, every and some
\* write nothing to the array or to its elements.
InputAfterCall(arg) == arg

(***************************************************************************)
(* The caller                                                              *)
(***************************************************************************)

\* The validity predicate of the documentation (lines 12-13): the caller's
\* notion of a record the log should skip.
ValidRecord(e) ==
  /\ e.kind = "object"
  /\ e.type \in {"credit", "debit"}
  /\ e.amount.t = "number"
  /\ e.amount.n > 0

\* Element i of s gets identity i.
WithIds(s) ==
  [i \in 1..Len(s) |-> IF s[i].kind = "object" THEN [s[i] EXCEPT !.id = i] ELSE s[i]]

Array(s) == [isArray |-> TRUE, elems |-> s]

\* A value that is no array: without indexed properties (a number, null,
\* undefined, a plain object) or array-like with one record.
NotArray(s) == [isArray |-> FALSE, elems |-> s]

AmountValues ==
  {Num(0 - 5), Num(0), Num(100), Num(101), Num(5000), Str(<<"5", "0", "0">>)}

\* Elements that vary in type and amount.
AmountElems ==
  {NullElem, PrimitiveElem}
  \cup {Txn(ty, a, "Rahul", "food") : ty \in {"credit", "debit"}, a \in AmountValues}
  \cup {Txn("refund", a, "Rahul", "food") : a \in {Num(101), Num(5000)}}

\* Elements that vary in counterparty and category.
LabelElems ==
  {NullElem}
  \cup {Txn(k[1], k[2], t, c) : k \in {<<"credit", Num(100)>>, <<"debit", Num(5000)>>},
                               t \in {"Rahul", "Swiggy", "toString"},
                               c \in {"food", "toString"}}
  \cup {Txn("refund", Num(5000), "Swiggy", "food"),
        Txn("credit", Str(<<"5", "0", "0">>), "Swiggy", "food"),
        Txn("debit", Num(0), "Swiggy", "food")}

\* Invalid elements a caller may add to a log.
InvalidSamples ==
  {NullElem,
   Txn("refund", Num(5000), "Swiggy", "travel"),
   Txn("credit", Str(<<"5", "0", "0">>), "Swiggy", "travel"),
   Txn("debit", Num(0), "Swiggy", "travel")}

Arguments(elems) ==
  {Array(WithIds(s)) : s \in UNION {[1..n -> elems] : n \in 0..MaxLen}}
  \cup {NotArray(<<>>), NotArray(WithIds(<<Txn("credit", Num(100), "Rahul", "food")>>))}

NoResult == [kind |-> "none"]

InitWith(elems) ==
  /\ transactions \in Arguments(elems)
  /\ given = NotArray(<<>>)
  /\ result = NoResult
  /\ previous = NoResult
  /\ calls = 0
  /\ edit = "none"
  /\ pc = "idle"

Init == InitWith(AmountElems)

InitLabels == InitWith(LabelElems)

\* result = analyzeUPITransactions(transactions)
Call ==
  /\ pc = "idle"
  /\ calls < 2
  /\ given' = transactions
  /\ previous' = result
  /\ result' = analyzeUPITransactions(transactions)
  /\ transactions' = InputAfterCall(transactions)
  /\ calls' = calls + 1
  /\ pc' = "returned"
  /\ UNCHANGED edit

\* The caller passes the same value again.
Repeat ==
  /\ pc = "returned"
  /\ calls = 1
  /\ edit' = "repeat"
  /\ pc' = "idle"
  /\ UNCHANGED <<transactions, given, result, previous, calls>>

\* The caller removes the invalid element at position i before the next call.
DropInvalid(i) ==
  /\ pc = "returned"
  /\ calls = 1
  /\ transactions.isArray
  /\ i \in 1..Len(transactions.elems)
  /\ ~ValidRecord(transactions.elems[i])
  /\ transactions' =
       Array(SubSeq(transactions.elems, 1, i - 1)
             \o SubSeq(transactions.elems, i + 1, Len(transactions.elems)))
  /\ edit' = "drop"
  /\ pc' = "idle"
  /\ UNCHANGED <<given, result, previous, calls>>

\* The caller puts an invalid element e at position i before the next call.
InsertInvalid(i, e) ==
  /\ pc = "returned"
  /\ calls = 1
  /\ transactions.isArray
  /\ Len(transactions.elems) < MaxLen
  /\ i \in 1..(Len(transactions.elems) + 1)
  /\ ~ValidRecord(e)
  /\ transactions' =
       Array(SubSeq(transactions.elems, 1, i - 1) \o <<e>>
             \o SubSeq(transactions.elems, i, Len(transactions.elems)))
  /\ edit' = "insert"
  /\ pc' = "idle"
  /\ UNCHANGED <<given, result, previous, calls>>

Next ==
  \/ Call
  \/ Repeat
  \/ \E i \in 1..MaxLen : DropInvalid(i)
  \/ \E i \in 1..MaxLen, e \in InvalidSamples : InsertInvalid(i, e)

Spec == Init /\ [][Next]_vars

SpecLabels == InitLabels /\ [][Next]_vars

(***************************************************************************)
(* Properties                                                              *)
(***************************************************************************)

Returned == pc = "returned"

\* Positions of the valid records of an argument.
ValidPositions(arg) ==
  IF arg.isArray THEN {i \in 1..Len(arg.elems) : ValidRecord(arg.elems[i])} ELSE {}

PositionsOfType(arg, ty) == {i \in ValidPositions(arg) : arg.elems[i].type = ty}

HasValid(arg) == ValidPositions(arg) # {}

AmountAt(arg, i) == arg.elems[i].amount.n

RECURSIVE SumAt(_, _)
SumAt(arg, S) ==
  IF S = {} THEN 0
  ELSE LET i == CHOOSE j \in S : TRUE
       IN  AmountAt(arg, i) + SumAt(arg, S \ {i})

IsSummary == result.kind = "summary"

\* C1: a call never throws; it returns null exactly when the argument is not
\* an array, is an empty array, or holds no valid record, and a summary
\* object otherwise.
C1_NullIffNoValidRecord ==
  Returned =>
    /\ result.kind # "TypeError"
    /\ (result = Null) <=> (~given.isArray \/ Len(given.elems) = 0 \/ ~HasValid(given))
    /\ HasValid(given) => IsSummary

\* A non-empty array of malformed elements only (a null element and a
\* record whose amount is the string "500") was analysed and gave null.
C1_Witness ==
  /\ Returned
  /\ given.isArray
  /\ \E i, j \in 1..Len(given.elems) :
       /\ given.elems[i].kind = "null"
       /\ given.elems[j].kind = "object"
       /\ given.elems[j].amount.t = "string"
  /\ result = Null

\* C2: totalCredit and totalDebit are the sums of the amounts of the valid
\* credit and debit records, and netBalance is their difference.
C2_TotalsByType ==
  (Returned /\ HasValid(given)) =>
    /\ IsSummary
    /\ result.totalCredit = Num(SumAt(given, PositionsOfType(given, "credit")))
    /\ result.totalDebit = Num(SumAt(given, PositionsOfType(given, "debit")))
    /\ result.netBalance = Num(SumAt(given, PositionsOfType(given, "credit"))
                               - SumAt(given, PositionsOfType(given, "debit")))

\* Credits and debits were both summed and the balance is negative.
C2_Witness ==
  /\ Returned
  /\ IsSummary
  /\ result.totalCredit.n > 0
  /\ result.totalDebit.n > result.totalCredit.n
  /\ result.netBalance.n < 0

\* C3: transactionCount is the number of elements that satisfy the validity
\* predicate, which is the number of records summed into the two totals; it
\* lies between 1 and the length of the input.
C3_CountOfValidRecords ==
  (Returned /\ HasValid(given)) =>
    /\ IsSummary
    /\ result.transactionCount = Cardinality(ValidPositions(given))
    /\ result.transactionCount =
         Cardinality(PositionsOfType(given, "credit"))
         + Cardinality(PositionsOfType(given, "debit"))
    /\ result.transactionCount >= 1
    /\ result.transactionCount <= Len(given.elems)

\* Two records were counted and an invalid one was not.
C3_Witness ==
  /\ Returned
  /\ IsSummary
  /\ result.transactionCount = 2
  /\ Len(given.elems) > 2

\* C4: avgTransaction is the integer nearest to
\* (totalCredit + totalDebit) / transactionCount, an exact half going up:
\* avg - 1/2 <= total / count < avg + 1/2.
C4_AverageRoundsHalfUp ==
  (Returned /\ HasValid(given)) =>
    /\ IsSummary
    /\ LET total == result.totalCredit.n + result.totalDebit.n
           count == result.transactionCount
           avg == result.avgTransaction
       IN  /\ (2 * count * avg) - count <= 2 * total
           /\ 2 * total < (2 * count * avg) + count

\* The quotient was an exact half (201 / 2) and went up.
C4_Witness ==
  /\ Returned
  /\ IsSummary
  /\ LET total == result.totalCredit.n + result.totalDebit.n
         count == result.transactionCount
     IN  /\ (2 * total) % (2 * count) = count
         /\ 2 * result.avgTransaction * count = (2 * total) + count

\* C5: highestTransaction is a valid record of the input, no valid record
\* has a greater amount, and every valid record before it has a smaller one.
C5_HighestIsFirstMaximum ==
  (Returned /\ HasValid(given)) =>
    /\ IsSummary
    /\ \E i \in ValidPositions(given) :
         /\ given.elems[i] = result.highestTransaction
         /\ \A j \in ValidPositions(given) :
              /\ AmountAt(given, j) <= AmountAt(given, i)
              /\ j < i => AmountAt(given, j) < AmountAt(given, i)

\* Two valid records share the maximum and an invalid record carries a
\* greater amount.
C5_Witness ==
  /\ Returned
  /\ IsSummary
  /\ \E i, j \in ValidPositions(given) :
       /\ i < j
       /\ given.elems[i] = result.highestTransaction
       /\ AmountAt(given, j) = AmountAt(given, i)
  /\ \E k \in 1..Len(given.elems) :
       /\ given.elems[k].kind = "object"
       /\ ~ValidRecord(given.elems[k])
       /\ given.elems[k].amount.n > result.highestTransaction.amount.n

\* Occurrences of a label among the valid records, and its first one.
Occurrences(arg, label) == {i \in ValidPositions(arg) : arg.elems[i].to = label}

FirstOccurrence(arg, label) ==
  CHOOSE i \in Occurrences(arg, label) : \A j \in Occurrences(arg, label) : i <= j

ValidLabels(arg) == {arg.elems[i].to : i \in ValidPositions(arg)}

\* C6: frequentContact is a label of the valid records with the greatest
\* number of occurrences among them, and among the labels with that number
\* the one that occurs first.
C6_FrequentContact ==
  (Returned /\ HasValid(given)) =>
    /\ IsSummary
    /\ result.frequentContact \in ValidLabels(given)
    /\ \A l \in ValidLabels(given) :
         LET n == Cardinality(Occurrences(given, l))
             best == Cardinality(Occurrences(given, result.frequentContact))
         IN  /\ n <= best
             /\ (n = best /\ l # result.frequentContact) =>
                  FirstOccurrence(given, result.frequentContact) < FirstOccurrence(given, l)

ValidCategories(arg) == {arg.elems[i].category : i \in ValidPositions(arg)}

PositionsOfCategory(arg, c) == {i \in ValidPositions(arg) : arg.elems[i].category = c}

RECURSIVE SumOfNumbers(_, _)
SumOfNumbers(obj, keys) ==
  IF keys = {} THEN 0
  ELSE LET k == CHOOSE x \in keys : TRUE
       IN  obj[k].n + SumOfNumbers(obj, keys \ {k})

\* C7: the keys of categoryBreakdown are the categories of the valid
\* records, each maps to the sum of the amounts of the valid records of that
\* category, and the values add up to totalCredit + totalDebit.
C7_CategoryBreakdown ==
  (Returned /\ HasValid(given)) =>
    /\ IsSummary
    /\ DOMAIN result.categoryBreakdown = ValidCategories(given)
    /\ \A c \in ValidCategories(given) :
         result.categoryBreakdown[c] = Num(SumAt(given, PositionsOfCategory(given, c)))
    /\ SumOfNumbers(result.categoryBreakdown, DOMAIN result.categoryBreakdown)
         = result.totalCredit.n + result.totalDebit.n

\* C8: allAbove100 tells that every valid amount exceeds 100 and
\* hasLargeTransaction that some valid amount is at least 5000.
C8_Flags ==
  (Returned /\ HasValid(given)) =>
    /\ IsSummary
    /\ result.allAbove100 <=> \A i \in ValidPositions(given) : AmountAt(given, i) > 100
    /\ result.hasLargeTransaction <=> \E i \in ValidPositions(given) : AmountAt(given, i) >= 5000

\* The least valid amount is exactly 100 and the flag is false, while an
\* invalid record carries 5000 and hasLargeTransaction is false too.
C8_Witness ==
  /\ Returned
  /\ IsSummary
  /\ \E i \in ValidPositions(given) : AmountAt(given, i) = 100
  /\ ~result.allAbove100
  /\ \E k \in 1..Len(given.elems) :
       /\ given.elems[k].kind = "object"
       /\ ~ValidRecord(given.elems[k])
       /\ given.elems[k].amount = Num(5000)
  /\ ~result.hasLargeTransaction

\* The valid records of an array, in their order.
ValidSubsequence(arg) == Array(SelectSeq(arg.elems, ValidRecord))

\* C9: the result on an array is the result on the subsequence of its valid
\* records, and a call after one invalid element was dropped or inserted
\* returns what the call before it returned.
C9_InvalidRecordsIgnored ==
  (Returned /\ given.isArray) =>
    /\ result = analyzeUPITransactions(ValidSubsequence(given))
    /\ (calls = 2 /\ edit \in {"drop", "insert"}) => result = previous

\* A summary was returned again after an invalid element was inserted
\* before a valid record.
C9_Witness ==
  /\ Returned
  /\ calls = 2
  /\ edit = "insert"
  /\ IsSummary
  /\ ~ValidRecord(given.elems[1])
  /\ result = previous

====
